---- MODULE Spec2Model ----
(***************************************************************************)
(* A model of the currency converter service: the rate model and feed      *)
(* parsing (models/rate.rs, services/ecb_fetcher.rs), the converter        *)
(* (services/converter.rs), the Redis store (services/redis_store.rs),     *)
(* the update pipeline (services/scheduler.rs) and the process lifecycle   *)
(* (main.rs).                                                              *)
(*                                                                         *)
(* Strings are tuples of one-character strings, so that upper-casing and   *)
(* decimal parsing are computed character by character.  A Decimal is an   *)
(* integer counting units of 10^-Scale.  Option values are <<>> (None)     *)
(* and <<x>> (Some(x)).  A Result is a record [ok, val, err].              *)
(***************************************************************************)
EXTENDS Integers, Sequences, FiniteSets, TLC

(***************************************************************************)
(* Bounds of the model.                                                    *)
(***************************************************************************)
\* number of decimal places a Decimal keeps
Scale == 2
\* largest integer part a Decimal can hold before an operation overflows
DecMaxUnits == 20
\* number of update runs that can be in flight at the same time
MaxRuns == 2
\* number of schedule ticks in one behaviour
MaxTicks == 2

(***************************************************************************)
(* Strings.                                                                *)
(***************************************************************************)
LowerToUpper ==
    [c \in {"b", "d", "e", "g", "p", "r", "s", "u", "x"} |->
        CASE c = "b" -> "B" [] c = "d" -> "D" [] c = "e" -> "E"
          [] c = "g" -> "G" [] c = "p" -> "P" [] c = "r" -> "R"
          [] c = "s" -> "S" [] c = "u" -> "U" [] c = "x" -> "X"]

to_uppercase(s) ==
    [i \in DOMAIN s |-> IF s[i] \in DOMAIN LowerToUpper THEN LowerToUpper[s[i]] ELSE s[i]]

EUR == <<"E", "U", "R">>
USD == <<"U", "S", "D">>
GBP == <<"G", "B", "P">>
XXX == <<"X", "X", "X">>
usd == <<"u", "s", "d">>
eur == <<"e", "u", "r">>
Gbp == <<"G", "b", "p">>

(***************************************************************************)
(* Results and errors (error.rs).                                          *)
(***************************************************************************)
None == <<>>
Some(x) == <<x>>

ApiError(kind, detail) == [kind |-> kind, detail |-> detail]
Ok(v) == [ok |-> TRUE, val |-> v, err |-> ApiError("", <<>>)]
Err(kind, detail) == [ok |-> FALSE, val |-> <<>>, err |-> ApiError(kind, detail)]

(***************************************************************************)
(* Decimal (rust_decimal): fixed point with Scale places.                  *)
(***************************************************************************)
RECURSIVE Pow10(_)
Pow10(n) == IF n = 0 THEN 1 ELSE 10 * Pow10(n - 1)

Unit == Pow10(Scale)
DecMax == DecMaxUnits * Unit
ONE == Unit
ZERO == 0

Abs(x) == IF x < 0 THEN -x ELSE x
Sign(x) == IF x < 0 THEN -1 ELSE 1

\* n / d for n >= 0, d > 0, rounded to the nearest integer, ties to even
RoundDiv(n, d) ==
    LET q == n \div d
        r == n % d
    IN  IF 2 * r > d \/ (2 * r = d /\ q % 2 = 1) THEN q + 1 ELSE q

\* Decimal::checked_div: None on a zero divisor or on overflow
checked_div(a, b) ==
    IF b = 0 THEN None
    ELSE LET q == RoundDiv(Abs(a) * Unit, Abs(b))
         IN  IF q > DecMax THEN None ELSE Some(Sign(a) * Sign(b) * q)

\* Decimal::checked_mul: None on overflow
checked_mul(a, b) ==
    LET p == RoundDiv(Abs(a) * Abs(b), Unit)
    IN  IF p > DecMax THEN None ELSE Some(Sign(a) * Sign(b) * p)

Digits == {"0", "1", "2", "3", "4", "5", "6", "7", "8", "9"}
DigitVal(c) ==
    CASE c = "0" -> 0 [] c = "1" -> 1 [] c = "2" -> 2 [] c = "3" -> 3 [] c = "4" -> 4
      [] c = "5" -> 5 [] c = "6" -> 6 [] c = "7" -> 7 [] c = "8" -> 8 [] c = "9" -> 9

\* the value of a digit string read as an integer
RECURSIVE IntVal(_)
IntVal(ds) ==
    IF ds = <<>> THEN 0
    ELSE 10 * IntVal(SubSeq(ds, 1, Len(ds) - 1)) + DigitVal(ds[Len(ds)])

\* the value, in units of 10^-Scale, of the digit string after the point
FracVal(ds) ==
    IF Len(ds) <= Scale
    THEN IntVal(ds) * Pow10(Scale - Len(ds))
    ELSE RoundDiv(IntVal(ds), Pow10(Len(ds) - Scale))

\* str::parse::<Decimal>: an optional sign, digits, an optional point and digits
ParseDecimal(s) ==
    LET signed == Len(s) > 0 /\ s[1] \in {"-", "+"}
        neg == Len(s) > 0 /\ s[1] = "-"
        body == IF signed THEN Tail(s) ELSE s
        dots == {i \in DOMAIN body : body[i] = "."}
        point == IF dots = {} THEN Len(body) + 1 ELSE CHOOSE i \in dots : TRUE
        ip == SubSeq(body, 1, point - 1)
        fp == SubSeq(body, point + 1, Len(body))
        wellformed ==
            /\ Cardinality(dots) <= 1
            /\ \A i \in DOMAIN body : body[i] \in Digits \cup {"."}
            /\ Len(ip) + Len(fp) > 0
    IN  IF ~wellformed THEN Err("ParseDecimal", <<>>)
        ELSE LET mag == IntVal(ip) * Unit + FracVal(fp)
             IN  IF mag > DecMax THEN Err("ParseDecimal", <<>>)
                 ELSE Ok(IF neg THEN -mag ELSE mag)

(***************************************************************************)
(* DailyRate (models/rate.rs).                                             *)
(***************************************************************************)
DailyRate(date, base, rates) == [date |-> date, base |-> base, rates |-> rates]

EmptyMap == [c \in {} |-> 0]

\* HashMap::insert
Insert(map, k, v) == [c \in DOMAIN map \cup {k} |-> IF c = k THEN v ELSE map[c]]

\* the loop of from_ecb_data over the feed's line items
RECURSIVE InsertEcbRates(_, _)
InsertEcbRates(rates, rate_map) ==
    IF rates = <<>> THEN Ok(rate_map)
    ELSE LET rate == Head(rates)
             rate_value == ParseDecimal(rate.rate)
         IN  IF ~rate_value.ok THEN Err("ParseRate", rate.currency)
             ELSE InsertEcbRates(Tail(rates),
                                 Insert(rate_map, to_uppercase(rate.currency), rate_value.val))

\* from_ecb_data without the entry for EUR
from_ecb_data_without_eur(time, rates) ==
    LET rate_map == InsertEcbRates(rates, EmptyMap)
    IN  IF ~rate_map.ok THEN rate_map
        ELSE Ok(DailyRate(time, EUR, rate_map.val))

from_ecb_data(time, rates) ==
    LET rate_map == InsertEcbRates(rates, EmptyMap)
    IN  IF ~rate_map.ok THEN rate_map
        ELSE Ok(DailyRate(time, EUR, Insert(rate_map.val, EUR, ONE)))

\* a date string is its fields between the dashes; NaiveDate::parse_from_str "%Y-%m-%d"
DaysInMonth(y, m) ==
    IF m = 2 THEN (IF y % 4 = 0 /\ (y % 100 # 0 \/ y % 400 = 0) THEN 29 ELSE 28)
    ELSE IF m \in {4, 6, 9, 11} THEN 30 ELSE 31

validate_date(date) ==
    /\ Len(date) = 3
    /\ date[2] \in 1..12
    /\ date[3] \in 1..DaysInMonth(date[1], date[2])

(***************************************************************************)
(* Feed fetcher (services/ecb_fetcher.rs).  An upstream response is a      *)
(* record: whether the request got through, whether the status was a       *)
(* success, whether the body is an envelope quick-xml can read, and the    *)
(* envelope's time attribute and line items.                               *)
(***************************************************************************)
Line(currency, rate) == [currency |-> currency, rate |-> rate]
Response(transport_ok, status_ok, xml_ok, time, rates) ==
    [transport_ok |-> transport_ok, status_ok |-> status_ok, xml_ok |-> xml_ok,
     time |-> time, rates |-> rates]
Feed(time, rates) == Response(TRUE, TRUE, TRUE, time, rates)

parse_ecb_xml(xml) ==
    IF ~xml.xml_ok THEN Err("XmlParseError", <<>>)
    ELSE LET daily_rate == from_ecb_data(xml.time, xml.rates)
         IN  IF ~daily_rate.ok THEN Err("XmlParseError", daily_rate.err.detail)
             ELSE IF ~validate_date(daily_rate.val.date) THEN Err("XmlParseError", <<>>)
             ELSE daily_rate

fetch_rates(response) ==
    IF ~response.transport_ok THEN Err("EcbFetchError", <<>>)
    ELSE IF ~response.status_ok THEN Err("EcbFetchError", <<>>)
    ELSE parse_ecb_xml(response)

(***************************************************************************)
(* Converter (services/converter.rs).                                      *)
(***************************************************************************)
\* steps 1 to 4 with the lookup of `to` done before the lookup of `from`
cross_rate_to_first(daily_rate, from, to, amount) ==
    LET base == daily_rate.base
    IN  IF to # base /\ to \notin DOMAIN daily_rate.rates
        THEN Err("CurrencyNotFound", to)
        ELSE IF from # base /\ from \notin DOMAIN daily_rate.rates
        THEN Err("CurrencyNotFound", from)
        ELSE LET from_rate == IF from = base THEN ONE ELSE daily_rate.rates[from]
                 to_rate == IF to = base THEN ONE ELSE daily_rate.rates[to]
                 conversion_rate == checked_div(to_rate, from_rate)
             IN  IF conversion_rate = None THEN Err("CalculationError", <<>>)
                 ELSE LET result == checked_mul(amount, conversion_rate[1])
                      IN  IF result = None THEN Err("CalculationError", <<>>)
                          ELSE Ok(<<result[1], conversion_rate[1]>>)

\* steps 1 to 4 with the rate of `to` taken as the cross rate, not divided by from_rate
cross_rate_no_division(daily_rate, from, to, amount) ==
    LET base == daily_rate.base
    IN  IF from # base /\ from \notin DOMAIN daily_rate.rates
        THEN Err("CurrencyNotFound", from)
        ELSE IF to # base /\ to \notin DOMAIN daily_rate.rates
        THEN Err("CurrencyNotFound", to)
        ELSE LET to_rate == IF to = base THEN ONE ELSE daily_rate.rates[to]
                 result == checked_mul(amount, to_rate)
             IN  IF result = None THEN Err("CalculationError", <<>>)
                 ELSE Ok(<<result[1], to_rate>>)

\* steps 1 to 4 with the cross rate taken as from_rate / to_rate
cross_rate_inverted(daily_rate, from, to, amount) ==
    LET base == daily_rate.base
    IN  IF from # base /\ from \notin DOMAIN daily_rate.rates
        THEN Err("CurrencyNotFound", from)
        ELSE IF to # base /\ to \notin DOMAIN daily_rate.rates
        THEN Err("CurrencyNotFound", to)
        ELSE LET from_rate == IF from = base THEN ONE ELSE daily_rate.rates[from]
                 to_rate == IF to = base THEN ONE ELSE daily_rate.rates[to]
                 conversion_rate == checked_div(from_rate, to_rate)
             IN  IF conversion_rate = None THEN Err("CalculationError", <<>>)
                 ELSE LET result == checked_mul(amount, conversion_rate[1])
                      IN  IF result = None THEN Err("CalculationError", <<>>)
                          ELSE Ok(<<result[1], conversion_rate[1]>>)

\* steps 1 to 4 of convert_currency: the two rates, the cross rate and the amount
cross_rate(daily_rate, from, to, amount) ==
    LET base == daily_rate.base
    IN  IF from # base /\ from \notin DOMAIN daily_rate.rates
        THEN Err("CurrencyNotFound", from)
        ELSE IF to # base /\ to \notin DOMAIN daily_rate.rates
        THEN Err("CurrencyNotFound", to)
        ELSE LET from_rate == IF from = base THEN ONE ELSE daily_rate.rates[from]
                 to_rate == IF to = base THEN ONE ELSE daily_rate.rates[to]
                 conversion_rate == checked_div(to_rate, from_rate)
             IN  IF conversion_rate = None THEN Err("CalculationError", <<>>)
                 ELSE LET result == checked_mul(amount, conversion_rate[1])
                      IN  IF result = None THEN Err("CalculationError", <<>>)
                          ELSE Ok(<<result[1], conversion_rate[1]>>)

\* convert_currency without its special case for the same currency
convert_currency_no_special_case(daily_rate, from_arg, to_arg, amount) ==
    cross_rate(daily_rate, to_uppercase(from_arg), to_uppercase(to_arg), amount)

convert_currency(daily_rate, from_arg, to_arg, amount) ==
    LET from == to_uppercase(from_arg)
        to == to_uppercase(to_arg)
    IN  IF from = to THEN Ok(<<amount, ONE>>)
        ELSE cross_rate(daily_rate, from, to, amount)

\* the keys of the rebased map when the loop does not skip the new base
RebasedKeys_no_skip(daily_rate, new_base) ==
    {daily_rate.base} \cup DOMAIN daily_rate.rates

\* the keys of the map rebase_rates builds: the old base, then every key but the new base
RebasedKeys(daily_rate, new_base) ==
    {daily_rate.base} \cup (DOMAIN daily_rate.rates \ {new_base})

\* rebase_rates without the early return for the base it already has
rebase_rates_no_early_return(daily_rate, new_base_arg) ==
    LET new_base == to_uppercase(new_base_arg)
    IN  IF new_base \notin DOMAIN daily_rate.rates
             THEN Err("CurrencyNotFound", new_base)
        ELSE LET base_rate == daily_rate.rates[new_base]
                 old_base_rate == checked_div(ONE, base_rate)
                 others == DOMAIN daily_rate.rates \ {new_base}
             IN  IF old_base_rate = None THEN Err("CalculationError", <<>>)
                 ELSE IF \E c \in others : checked_div(daily_rate.rates[c], base_rate) = None
                      THEN Err("CalculationError", <<>>)
                 ELSE Ok(DailyRate(
                        daily_rate.date,
                        new_base,
                        [c \in RebasedKeys(daily_rate, new_base) |->
                            IF c \in others
                            THEN checked_div(daily_rate.rates[c], base_rate)[1]
                            ELSE old_base_rate[1]]))

\* rebase_rates giving the old base the new base's rate instead of its inverse
rebase_rates_old_base_not_inverted(daily_rate, new_base_arg) ==
    LET new_base == to_uppercase(new_base_arg)
    IN  IF new_base = daily_rate.base THEN Ok(daily_rate)
        ELSE IF new_base \notin DOMAIN daily_rate.rates
             THEN Err("CurrencyNotFound", new_base)
        ELSE LET base_rate == daily_rate.rates[new_base]
                 old_base_rate == checked_div(ONE, base_rate)
                 others == DOMAIN daily_rate.rates \ {new_base, daily_rate.base}
             IN  IF old_base_rate = None THEN Err("CalculationError", <<>>)
                 ELSE IF \E c \in others : checked_div(daily_rate.rates[c], base_rate) = None
                      THEN Err("CalculationError", <<>>)
                 ELSE Ok(DailyRate(
                        daily_rate.date,
                        new_base,
                        [c \in RebasedKeys(daily_rate, new_base) |->
                            IF c \in others
                            THEN checked_div(daily_rate.rates[c], base_rate)[1]
                            ELSE base_rate]))

rebase_rates(daily_rate, new_base_arg) ==
    LET new_base == to_uppercase(new_base_arg)
    IN  IF new_base = daily_rate.base THEN Ok(daily_rate)
        ELSE IF new_base \notin DOMAIN daily_rate.rates
             THEN Err("CurrencyNotFound", new_base)
        ELSE LET base_rate == daily_rate.rates[new_base]
                 old_base_rate == checked_div(ONE, base_rate)
                 others == DOMAIN daily_rate.rates \ {new_base}
             IN  IF old_base_rate = None THEN Err("CalculationError", <<>>)
                 ELSE IF \E c \in others : checked_div(daily_rate.rates[c], base_rate) = None
                      THEN Err("CalculationError", <<>>)
                 ELSE Ok(DailyRate(
                        daily_rate.date,
                        new_base,
                        [c \in RebasedKeys(daily_rate, new_base) |->
                            IF c \in others
                            THEN checked_div(daily_rate.rates[c], base_rate)[1]
                            ELSE old_base_rate[1]]))

(***************************************************************************)
(* Redis store (services/redis_store.rs).  The serialized DailyRate is a   *)
(* JSON object whose rates are a set of members, each Decimal written as   *)
(* its sign, integer part and fraction.                                    *)
(***************************************************************************)
DecimalToJson(v) == [neg |-> v < 0, int |-> Abs(v) \div Unit, frac |-> Abs(v) % Unit]
DecimalFromJson(j) == (IF j.neg THEN -1 ELSE 1) * (j.int * Unit + j.frac)

to_string(rates) ==
    [date |-> rates.date,
     base |-> rates.base,
     rates |-> {<<c, DecimalToJson(rates.rates[c])>> : c \in DOMAIN rates.rates}]

from_str(data) ==
    DailyRate(data.date, data.base,
              [c \in {m[1] : m \in data.rates} |->
                  DecimalFromJson((CHOOSE m \in data.rates : m[1] = c)[2])])

\* RedisStore::get_rates: `up` is whether the GET gets through
get_rates(key, up) ==
    IF ~up THEN Err("RedisError", <<>>)
    ELSE IF key = None THEN Ok(None)
    ELSE Ok(Some(from_str(key[1])))

\* RedisStore::get_last_update_date
get_last_update_date(key, up) ==
    IF ~up THEN Err("RedisError", <<>>) ELSE Ok(key)

\* RedisStore::health_check: `up` is whether the PING gets through
health_check(up) == IF up THEN Ok(<<>>) ELSE Err("RedisError", <<>>)

(***************************************************************************)
(* The translation of an error into a response (error.rs).  A text is a    *)
(* sequence of pieces: the pieces of a format string, with the pieces of   *)
(* the error's detail spliced in where the format has `{0}`.               *)
(***************************************************************************)
\* the variants enum ApiError declares
Variants ==
    {"CurrencyNotFound", "NoRatesAvailable", "ValidationError", "EcbFetchError",
     "RedisError", "XmlParseError", "InternalError"}

\* self.to_string(): the #[error("...")] text of the variant
Display(self) ==
    CASE self.kind = "CurrencyNotFound" ->
            <<"Currency code '">> \o self.detail \o <<"' not found in exchange rates">>
      [] self.kind = "NoRatesAvailable" ->
            <<"No exchange rates available. Please try again later.">>
      [] self.kind = "ValidationError" -> <<"Invalid parameter: ">> \o self.detail
      [] self.kind = "EcbFetchError" -> <<"Failed to fetch ECB data: ">> \o self.detail
      [] self.kind = "RedisError" -> <<"Redis error: ">> \o self.detail
      [] self.kind = "XmlParseError" -> <<"XML parse error: ">> \o self.detail
      [] self.kind = "InternalError" -> <<"Internal server error: ">> \o self.detail

HttpResponse(status, body) == [status |-> status, body |-> body]

\* impl IntoResponse for ApiError: the match has an arm for each declared variant; a
\* kind that enum ApiError does not declare has no arm and no response
into_response(self) ==
    CASE self.kind = "CurrencyNotFound" -> HttpResponse(404, [error |-> Display(self)])
      [] self.kind = "NoRatesAvailable" -> HttpResponse(503, [error |-> Display(self)])
      [] self.kind = "ValidationError" -> HttpResponse(400, [error |-> Display(self)])
      [] self.kind = "EcbFetchError" ->
            HttpResponse(500, [error |-> <<"Failed to fetch exchange rates">>])
      [] self.kind = "RedisError" ->
            HttpResponse(500, [error |-> <<"Database connection error">>])
      [] self.kind = "XmlParseError" ->
            HttpResponse(500, [error |-> <<"Failed to parse exchange rate data">>])
      [] self.kind = "InternalError" ->
            HttpResponse(500, [error |-> <<"Internal server error">>])
      [] self.kind \notin Variants -> HttpResponse(0, <<>>)

\* what axum sends for a handler's Result<Json<T>, ApiError>
respond(result) ==
    IF result.ok THEN HttpResponse(200, result.val) ELSE into_response(result.err)

(***************************************************************************)
(* Query parameters and response bodies (models/api.rs).                   *)
(***************************************************************************)
ConvertQuery(from, to, amount) == [from |-> from, to |-> to, amount |-> amount]
LatestRatesQuery(base) == [base |-> base]

ConvertResponse(from, to, amount, result, rate, date) ==
    [from |-> from, to |-> to, amount |-> amount, result |-> result, rate |-> rate,
     date |-> date]
LatestRatesResponse(date, base, rates) == [date |-> date, base |-> base, rates |-> rates]
HealthResponse(status, redis, last_update) ==
    [status |-> status, redis |-> redis, last_update |-> last_update]

\* #[validate(length(equal = 3))] on from and to
validate_convert(params) == Len(params.from) = 3 /\ Len(params.to) = 3

\* #[validate(length(equal = 3))] on the optional base
validate_latest(params) == params.base = None \/ Len(params.base[1]) = 3

\* ConvertQuery::parse_amount
parse_amount(params) ==
    LET amount == ParseDecimal(params.amount)
    IN  IF ~amount.ok THEN Err("String", <<"Invalid amount format: ">>)
        ELSE IF amount.val < ZERO THEN Err("String", <<"Amount must be non-negative">>)
        ELSE Ok(amount.val)

(***************************************************************************)
(* Request handlers (handlers/).  `key` is what Redis holds under the key  *)
(* the handler reads and `up` whether that read gets through.              *)
(***************************************************************************)
\* convert_handler answering a conversion of a code to itself before it reads the cache
convert_handler_same_first(params, key, up) ==
    IF ~validate_convert(params) THEN Err("ValidationError", <<"length">>)
    ELSE LET amount == parse_amount(params)
         IN  IF ~amount.ok THEN Err("ValidationError", amount.err.detail)
             ELSE IF to_uppercase(params.from) = to_uppercase(params.to)
             THEN Ok(ConvertResponse(to_uppercase(params.from), to_uppercase(params.to),
                                     amount.val, amount.val, ONE, <<>>))
             ELSE LET rates == get_rates(key, up)
                  IN  IF ~rates.ok THEN rates
                      ELSE IF rates.val = None THEN Err("NoRatesAvailable", <<>>)
                      ELSE LET conv == convert_currency(rates.val[1], params.from,
                                                        params.to, amount.val)
                           IN  IF ~conv.ok THEN conv
                               ELSE Ok(ConvertResponse(
                                        to_uppercase(params.from), to_uppercase(params.to),
                                        amount.val, conv.val[1], conv.val[2],
                                        rates.val[1].date))

convert_handler(params, key, up) ==
    IF ~validate_convert(params) THEN Err("ValidationError", <<"length">>)
    ELSE LET amount == parse_amount(params)
         IN  IF ~amount.ok THEN Err("ValidationError", amount.err.detail)
             ELSE LET rates == get_rates(key, up)
                  IN  IF ~rates.ok THEN rates
                      ELSE IF rates.val = None THEN Err("NoRatesAvailable", <<>>)
                      ELSE LET conv == convert_currency(rates.val[1], params.from,
                                                        params.to, amount.val)
                           IN  IF ~conv.ok THEN conv
                               ELSE Ok(ConvertResponse(
                                        to_uppercase(params.from), to_uppercase(params.to),
                                        amount.val, conv.val[1], conv.val[2],
                                        rates.val[1].date))

\* latest_rates_handler reading the cache before it validates the query
latest_rates_handler_reads_first(params, key, up) ==
    LET rates == get_rates(key, up)
    IN  IF ~rates.ok THEN rates
        ELSE IF rates.val = None THEN Err("NoRatesAvailable", <<>>)
        ELSE IF ~validate_latest(params) THEN Err("ValidationError", <<"length">>)
        ELSE IF params.base # None
             THEN LET rebased == rebase_rates(rates.val[1], params.base[1])
                  IN  IF ~rebased.ok THEN rebased
                      ELSE Ok(LatestRatesResponse(rebased.val.date, rebased.val.base,
                                                  rebased.val.rates))
             ELSE Ok(LatestRatesResponse(rates.val[1].date, rates.val[1].base,
                                         rates.val[1].rates))

latest_rates_handler(params, key, up) ==
    IF ~validate_latest(params) THEN Err("ValidationError", <<"length">>)
    ELSE LET rates == get_rates(key, up)
         IN  IF ~rates.ok THEN rates
             ELSE IF rates.val = None THEN Err("NoRatesAvailable", <<>>)
             ELSE IF params.base # None
                  THEN LET rebased == rebase_rates(rates.val[1], params.base[1])
                       IN  IF ~rebased.ok THEN rebased
                           ELSE Ok(LatestRatesResponse(rebased.val.date, rebased.val.base,
                                                       rebased.val.rates))
                  ELSE Ok(LatestRatesResponse(rates.val[1].date, rates.val[1].base,
                                              rates.val[1].rates))

\* health_handler returning the error of a failed call with `?`
health_handler_propagates(health, last_update) ==
    IF ~health.ok THEN health
    ELSE IF ~last_update.ok THEN last_update
    ELSE Ok(HealthResponse("ok", "healthy", last_update.val))

\* health_handler, given what health_check and get_last_update_date returned
health_handler(health, last_update) ==
    Ok(HealthResponse("ok",
                      IF health.ok THEN "healthy" ELSE "unhealthy",
                      IF last_update.ok THEN last_update.val ELSE None))

(***************************************************************************)
(* The inputs of the running system.                                       *)
(***************************************************************************)
Day1 == <<2024, 12, 4>>
Day2 == <<2024, 12, 5>>
BadDay == <<2024, 2, 30>>

FeedA == Feed(Day1, <<Line(USD, <<"1", ".", "0", "5">>)>>)
FeedB == Feed(Day2, <<Line(USD, <<"1", ".", "1">>)>>)
FeedBadRate == Feed(Day2, <<Line(USD, <<"n", "/", "a">>)>>)
NoResponse == Response(FALSE, FALSE, FALSE, <<>>, <<>>)
BadStatus == Response(TRUE, FALSE, FALSE, <<>>, <<>>)
BadXml == Response(TRUE, TRUE, FALSE, <<>>, <<>>)

\* what the upstream can answer to one request of an update run
Upstream == {FeedA, FeedB, FeedBadRate, NoResponse, BadStatus, BadXml}

(***************************************************************************)
(* State.                                                                  *)
(***************************************************************************)
VARIABLES
    main_pc,     \* where main() is
    sched,       \* the JobScheduler: "none", "started", "shutdown"
    run,         \* the update runs: the eager one (slot 1) and the scheduled jobs
    ticks,       \* schedule ticks so far
    rates_key,   \* Redis key exchange:rates:latest: None or Some(json)
    date_key,    \* Redis key exchange:rates:date: None or Some(date)
    last_ok,     \* history: the argument of the last store_rates that returned Ok
    clean,       \* history: every store_rates so far returned Ok and overlapped no other
    reader,      \* a client that reads the rates and then the date
    http,        \* the HTTP request being served, or the last one answered
    conv_feed,   \* converter: the feed drawn
    conv_rs,     \* converter: the DailyRate in hand
    conv_out     \* converter: the last call and its result

sys_vars == <<main_pc, sched, run, ticks, rates_key, date_key, last_ok, clean, reader, http>>
conv_vars == <<conv_feed, conv_rs, conv_out>>
vars == <<main_pc, sched, run, ticks, rates_key, date_key, last_ok, clean, reader, http,
          conv_feed, conv_rs, conv_out>>

Runs == 1..MaxRuns

\* a run: its state, where update_rates is, the fetched rates, whether it changed a
\* key, and the error it ended with
Run(st, step, rs, dirty, err) ==
    [st |-> st, step |-> step, rs |-> rs, dirty |-> dirty, err |-> err]
IdleRun == Run("IDLE", "", None, FALSE, "")

Alive == main_pc # "exited"
Storing(r) == run[r].st = "FETCHING" /\ run[r].step \in {"set_rates", "set_date"}

IdleReader == [pc |-> "idle", rates |-> Ok(None), date |-> Ok(None)]
\* a request: where its handler is, the route, the query, whether each read of the
\* store got through, the handler's result and the response sent
Http(pc, route, params, up, result, response) ==
    [pc |-> pc, route |-> route, params |-> params, up |-> up, result |-> result,
     response |-> response]
IdleHttp == Http("idle", "", <<>>, <<>>, Ok(<<>>), HttpResponse(0, <<>>))
NoCall == [op |-> "", rs |-> None, a1 |-> <<>>, a2 |-> <<>>, amount |-> 0, res |-> Ok(<<>>)]

SysInit ==
    /\ main_pc = "initial_fetch"
    /\ sched = "none"
    /\ run = [r \in Runs |-> IdleRun]
    /\ ticks = 0
    /\ rates_key = None
    /\ date_key = None
    /\ last_ok = None
    /\ clean = TRUE
    /\ reader = IdleReader
    /\ http = IdleHttp

Init ==
    /\ SysInit
    /\ conv_feed = NoResponse
    /\ conv_rs = None
    /\ conv_out = NoCall

(***************************************************************************)
(* update_rates (services/scheduler.rs) and store_rates, one step per      *)
(* await.                                                                  *)
(***************************************************************************)
\* fetcher.fetch_rates().await?
RunFetch(r) ==
    /\ Alive
    /\ run[r].st = "FETCHING" /\ run[r].step = "fetch"
    /\ \E response \in Upstream :
        LET rates == fetch_rates(response)
        IN  IF rates.ok
            THEN /\ run' = [run EXCEPT ![r] = Run("FETCHING", "set_rates", Some(rates.val), FALSE, "")]
                 /\ clean' = (clean /\ ~\E o \in Runs \ {r} : Storing(o))
            ELSE /\ run' = [run EXCEPT ![r] = Run("FAILED", "fetch", None, FALSE, rates.err.kind)]
                 /\ clean' = clean
    /\ UNCHANGED <<main_pc, sched, ticks, rates_key, date_key, last_ok, reader, http, conv_vars>>

\* store_rates going on to the date key when the SET of the rates key has failed
RunSetRates_ignores_failure(r) ==
    /\ Alive
    /\ run[r].st = "FETCHING" /\ run[r].step = "set_rates"
    /\ \E up \in BOOLEAN :
        LET json == to_string(run[r].rs[1])
        IN  /\ rates_key' = IF up THEN Some(json) ELSE rates_key
            /\ run' = [run EXCEPT ![r] = Run("FETCHING", "set_date", run[r].rs,
                                             up /\ rates_key # Some(json), "")]
            /\ clean' = (clean /\ up)
    /\ UNCHANGED <<main_pc, sched, ticks, date_key, last_ok, reader, http, conv_vars>>

\* conn.set(RATES_KEY, json).await?
RunSetRates(r) ==
    /\ Alive
    /\ run[r].st = "FETCHING" /\ run[r].step = "set_rates"
    /\ \E up \in BOOLEAN :
        LET json == to_string(run[r].rs[1])
        IN  IF up
            THEN /\ rates_key' = Some(json)
                 /\ run' = [run EXCEPT ![r] = Run("FETCHING", "set_date", run[r].rs,
                                                  rates_key # Some(json), "")]
                 /\ clean' = clean
            ELSE /\ rates_key' = rates_key
                 /\ run' = [run EXCEPT ![r] = Run("FAILED", "set_rates", None, FALSE, "RedisError")]
                 /\ clean' = FALSE
    /\ UNCHANGED <<main_pc, sched, ticks, date_key, last_ok, reader, http, conv_vars>>

\* conn.set(DATE_KEY, &rates.date).await?
RunSetDate(r) ==
    /\ Alive
    /\ run[r].st = "FETCHING" /\ run[r].step = "set_date"
    /\ \E up \in BOOLEAN :
        LET date == run[r].rs[1].date
        IN  IF up
            THEN /\ date_key' = Some(date)
                 /\ run' = [run EXCEPT ![r] = Run("STORED", "set_date", None,
                                                  run[r].dirty \/ date_key # Some(date), "")]
                 /\ last_ok' = run[r].rs
                 /\ clean' = clean
            ELSE /\ date_key' = date_key
                 /\ run' = [run EXCEPT ![r] = Run("FAILED", "set_date", None,
                                                  run[r].dirty, "RedisError")]
                 /\ last_ok' = last_ok
                 /\ clean' = FALSE
    /\ UNCHANGED <<main_pc, sched, ticks, rates_key, reader, http, conv_vars>>

(***************************************************************************)
(* The scheduler (services/scheduler.rs).                                  *)
(***************************************************************************)
\* a schedule tick: the job closure is spawned
Tick ==
    /\ Alive
    /\ sched = "started"
    /\ ticks < MaxTicks
    /\ \E r \in Runs :
        /\ run[r].st = "IDLE"
        /\ \A o \in Runs : o < r => run[o].st # "IDLE"
        /\ run' = [run EXCEPT ![r] = Run("FETCHING", "fetch", None, FALSE, "")]
    /\ ticks' = ticks + 1
    /\ UNCHANGED <<main_pc, sched, rates_key, date_key, last_ok, clean, reader, http, conv_vars>>

\* the job's match on the result of update_rates: log it, and the task ends
JobDone(r) ==
    /\ Alive
    /\ main_pc # "initial_wait"
    /\ run[r].st \in {"STORED", "FAILED"}
    /\ run' = [run EXCEPT ![r] = IdleRun]
    /\ UNCHANGED <<main_pc, sched, ticks, rates_key, date_key, last_ok, clean, reader, http, conv_vars>>

(***************************************************************************)
(* main (main.rs).                                                         *)
(***************************************************************************)
\* the initial fetch spawned as a task instead of awaited
MainInitialFetch_spawned ==
    /\ main_pc = "initial_fetch"
    /\ run' = [run EXCEPT ![1] = Run("FETCHING", "fetch", None, FALSE, "")]
    /\ main_pc' = "start_scheduler"
    /\ UNCHANGED <<sched, ticks, rates_key, date_key, last_ok, clean, reader, http, conv_vars>>

\* update_rates(&fetcher, &store) is called for the initial fetch
MainInitialFetch ==
    /\ main_pc = "initial_fetch"
    /\ run' = [run EXCEPT ![1] = Run("FETCHING", "fetch", None, FALSE, "")]
    /\ main_pc' = "initial_wait"
    /\ UNCHANGED <<sched, ticks, rates_key, date_key, last_ok, clean, reader, http, conv_vars>>

\* the initial fetch with its error returned from main instead of logged
MainInitialDone_propagates ==
    /\ main_pc = "initial_wait"
    /\ run[1].st \in {"STORED", "FAILED"}
    /\ run' = [run EXCEPT ![1] = IdleRun]
    /\ main_pc' = IF run[1].st = "FAILED" THEN "exited" ELSE "start_scheduler"
    /\ UNCHANGED <<sched, ticks, rates_key, date_key, last_ok, clean, reader, http, conv_vars>>

\* the match on the initial fetch's result: either arm logs and goes on
MainInitialDone ==
    /\ main_pc = "initial_wait"
    /\ run[1].st \in {"STORED", "FAILED"}
    /\ run' = [run EXCEPT ![1] = IdleRun]
    /\ main_pc' = "start_scheduler"
    /\ UNCHANGED <<sched, ticks, rates_key, date_key, last_ok, clean, reader, http, conv_vars>>

\* RateScheduler::new, start, the listener is bound and axum::serve runs
MainStartScheduler ==
    /\ main_pc = "start_scheduler"
    /\ sched' = "started"
    /\ main_pc' = "serving"
    /\ UNCHANGED <<run, ticks, rates_key, date_key, last_ok, clean, reader, http, conv_vars>>

\* RateScheduler::new, start or the bind fails: main returns the error
MainStartFails ==
    /\ main_pc = "start_scheduler"
    /\ main_pc' = "exited"
    /\ UNCHANGED <<sched, run, ticks, rates_key, date_key, last_ok, clean, reader, http, conv_vars>>

\* shutdown_signal() resolves: the server stops accepting and drains
ShutdownSignal ==
    /\ main_pc = "serving"
    /\ main_pc' = "draining"
    /\ UNCHANGED <<sched, run, ticks, rates_key, date_key, last_ok, clean, reader, http, conv_vars>>

\* axum::serve returns once the requests in flight have been answered
MainServerStopped ==
    /\ main_pc = "draining"
    /\ reader.pc = "idle"
    /\ main_pc' = "shutdown_scheduler"
    /\ UNCHANGED <<sched, run, ticks, rates_key, date_key, last_ok, clean, reader, http, conv_vars>>

\* scheduler.shutdown().await
MainShutdownScheduler ==
    /\ main_pc = "shutdown_scheduler"
    /\ sched' = "shutdown"
    /\ main_pc' = "returning"
    /\ UNCHANGED <<run, ticks, rates_key, date_key, last_ok, clean, reader, http, conv_vars>>

\* main returns: the runtime is dropped and with it every task still in flight
MainExit ==
    /\ main_pc = "returning"
    /\ main_pc' = "exited"
    /\ UNCHANGED <<sched, run, ticks, rates_key, date_key, last_ok, clean, reader, http, conv_vars>>

(***************************************************************************)
(* A client of the store that reads the rates and then the date.           *)
(***************************************************************************)
ReaderGetRates ==
    /\ main_pc = "serving"
    /\ reader.pc = "idle"
    /\ \E up \in BOOLEAN :
        reader' = [pc |-> "got_rates", rates |-> get_rates(rates_key, up), date |-> Ok(None)]
    /\ UNCHANGED <<main_pc, sched, run, ticks, rates_key, date_key, last_ok, clean, http, conv_vars>>

ReaderGetDate ==
    /\ main_pc \in {"serving", "draining"}
    /\ reader.pc = "got_rates"
    /\ \E up \in BOOLEAN :
        reader' = [reader EXCEPT !.pc = "got_both", !.date = get_last_update_date(date_key, up)]
    /\ UNCHANGED <<main_pc, sched, run, ticks, rates_key, date_key, last_ok, clean, http, conv_vars>>

ReaderDone ==
    /\ main_pc \in {"serving", "draining"}
    /\ reader.pc = "got_both"
    /\ reader' = IdleReader
    /\ UNCHANGED <<main_pc, sched, run, ticks, rates_key, date_key, last_ok, clean, http, conv_vars>>

\* main, the scheduler and the update runs
PipelineNext ==
    \/ \E r \in Runs : RunFetch(r)
    \/ \E r \in Runs : RunSetRates(r)
    \/ \E r \in Runs : RunSetDate(r)
    \/ Tick
    \/ \E r \in Runs : JobDone(r)
    \/ MainInitialFetch
    \/ MainInitialDone
    \/ MainStartScheduler
    \/ MainStartFails
    \/ ShutdownSignal
    \/ MainServerStopped
    \/ MainShutdownScheduler
    \/ MainExit

\* the clients of the store
ClientNext ==
    \/ ReaderGetRates
    \/ ReaderGetDate
    \/ ReaderDone

Next == PipelineNext \/ ClientNext

Spec == Init /\ [][Next]_vars

\* The update pipeline by itself, with no client: a client changes no variable of main
\* or of the runs, it only delays MainServerStopped.  The runtime polls every task
\* that can make progress and the fetch has a timeout, so a step of a run that stays
\* possible is taken.
FairSpec ==
    /\ Init
    /\ [][PipelineNext]_vars
    /\ \A r \in Runs : WF_vars(RunFetch(r))
    /\ \A r \in Runs : WF_vars(RunSetRates(r))
    /\ \A r \in Runs : WF_vars(RunSetDate(r))

(***************************************************************************)
(* Properties of the running system.                                       *)
(***************************************************************************)
\* what the two keys hold agrees: both absent, or the date key is the date of the rates
Consistent ==
    IF rates_key = None THEN date_key = None
    ELSE date_key = Some(from_str(rates_key[1]).date)

Quiescent == \A r \in Runs : run[r].st # "FETCHING"

\* the DailyRates an update run can fetch
Fetched == {fetch_rates(f).val : f \in {g \in Upstream : fetch_rates(g).ok}}

\* C1: a run that has ended in failure, at the fetch or at either write of store_rates,
\* has changed neither key: get_rates and get_last_update_date return what they
\* returned before the run
C1_FailedRunLeavesCache ==
    \A r \in Runs : run[r].st = "FAILED" => ~run[r].dirty

\* C2: when two update runs have both completed successfully, however their writes
\* interleaved, the date key holds the date of the DailyRate under the rates key
C2_InterleavedRunsConsistent ==
    (/\ \A r \in Runs : run[r].st \in {"IDLE", "STORED"}
     /\ \E r1, r2 \in Runs : r1 # r2 /\ run[r1].st = "STORED" /\ run[r2].st = "STORED")
    => Consistent

\* C3: a reader concurrent with store_rates gets from get_rates a DailyRate some run
\* fetched, whole, and having read both keys (while no store_rates failed or overlapped
\* another) it holds a DailyRate and its own date, never the rates of one state with
\* the date of another
C3_ReaderSeesWholeState ==
    /\ (reader.pc # "idle" /\ reader.rates.ok /\ reader.rates.val # None)
        => reader.rates.val[1] \in Fetched
    /\ (reader.pc = "got_both" /\ reader.rates.ok /\ reader.date.ok /\ clean)
        => IF reader.rates.val = None THEN reader.date.val = None
           ELSE reader.date.val = Some(reader.rates.val[1].date)

\* the steps a run's state takes: IDLE -> FETCHING -> (STORED | FAILED) -> IDLE
RunStateStep(r) ==
    run[r].st # run'[r].st =>
        <<run[r].st, run'[r].st>> \in
            {<<"IDLE", "FETCHING">>, <<"FETCHING", "STORED">>, <<"FETCHING", "FAILED">>,
             <<"STORED", "IDLE">>, <<"FAILED", "IDLE">>}

\* a run is triggered by the initial fetch of main or by a schedule tick, one run each
RunTriggered(r) ==
    /\ (run[r].st = "IDLE" /\ run'[r].st = "FETCHING")
        => \/ main_pc = "initial_fetch" /\ main_pc' = "initial_wait"
           \/ ticks' = ticks + 1
    /\ ticks' # ticks
        => Cardinality({o \in Runs : run[o].st = "IDLE" /\ run'[o].st = "FETCHING"}) = 1
    /\ (main_pc = "initial_fetch" /\ main_pc' # main_pc)
        => run[1].st = "IDLE" /\ run'[1].st = "FETCHING"

\* a run that ends FAILED, and the step that takes its result, leave the process
\* running and the scheduler as it was
FailureIsContained(r) ==
    /\ (run[r].st # "FAILED" /\ run'[r].st = "FAILED")
        => main_pc' = main_pc /\ sched' = sched
    /\ (run[r].st = "FAILED" /\ run'[r].st = "IDLE")
        => main_pc' # "exited" /\ sched' = sched
           /\ (main_pc # main_pc' => main_pc' = "start_scheduler")

RunLifecycle == [][\A r \in Runs : RunStateStep(r) /\ RunTriggered(r) /\ FailureIsContained(r)]_vars

\* C4 as stated: the run lifecycle, and every run that has started ends STORED or FAILED
C4_EveryRunEnds ==
    /\ RunLifecycle
    /\ \A r \in Runs : (run[r].st = "FETCHING") ~> (run[r].st \in {"STORED", "FAILED"})

\* C4 amended: the run lifecycle, and every run that has started ends STORED or FAILED
\* unless the process exits while the run is in flight
C4_EveryRunEndsUnlessExit ==
    /\ RunLifecycle
    /\ \A r \in Runs : (run[r].st = "FETCHING") ~> (run[r].st \in {"STORED", "FAILED"} \/ ~Alive)

\* the eager run failed without storing anything, the scheduler was started all the
\* same and a tick has triggered a new run
C4_Witness ==
    /\ sched = "started"
    /\ rates_key = None
    /\ ticks > 0
    /\ \E r \in Runs : run[r].st = "FETCHING"

NoRunStartsAfterSignal ==
    main_pc \in {"draining", "shutdown_scheduler", "returning", "exited"}
        => \A r \in Runs : (run[r].st = "IDLE" => run'[r].st = "IDLE")

\* C5: once the shutdown signal has arrived no new run starts, and when the process
\* has exited, with or without a run abandoned in flight, the date key holds the date
\* of the DailyRate under the rates key
C5_ShutdownLeavesCacheWhole ==
    /\ [][NoRunStartsAfterSignal]_vars
    /\ []((main_pc = "exited" /\ clean) => Consistent)

\* the second half of C5 alone: the cache of a process that has exited, when no
\* store_rates failed or overlapped another before
C5_ExitLeavesCacheWhole == (main_pc = "exited" /\ clean) => Consistent

\* C6: with no store_rates in flight, get_rates returns None if no store_rates has
\* ever returned Ok, and after store_rates calls that all returned Ok and did not
\* overlap it returns the argument of the last one
C6_OneCurrentSnapshot ==
    Quiescent =>
        /\ last_ok = None => get_rates(rates_key, TRUE).val = None
        /\ (last_ok # None /\ clean) => get_rates(rates_key, TRUE).val = last_ok

BaseNotKey(rs) == rs.base \notin DOMAIN rs.rates

CodeArgs == {EUR, USD, GBP, XXX, usd, eur, Gbp}

\* C7: the base of a DailyRate is not a key of its rates, for every DailyRate a run
\* has fetched, for the one in the cache and for every result of rebase_rates on it
C7_BaseNeverAKey ==
    /\ \A r \in Runs : run[r].rs # None => BaseNotKey(run[r].rs[1])
    /\ rates_key # None =>
        /\ BaseNotKey(from_str(rates_key[1]))
        /\ \A x \in CodeArgs :
            LET rebased == rebase_rates(from_str(rates_key[1]), x)
            IN  rebased.ok => BaseNotKey(rebased.val)

(***************************************************************************)
(* The pure functions on their own: a feed is drawn, parsed, and the       *)
(* converter is applied to the DailyRate in hand.                          *)
(***************************************************************************)
R105 == <<"1", ".", "0", "5">>
R085 == <<"0", ".", "8", "5">>

ConvFeeds ==
    {Feed(Day1, <<Line(USD, R105), Line(GBP, R085)>>),
     Feed(Day2, <<Line(GBP, <<"4">>)>>),
     Feed(Day1, <<Line(EUR, <<"1">>), Line(USD, R105)>>),
     Feed(Day1, <<Line(EUR, <<"2">>), Line(USD, R105)>>),
     Feed(Day1, <<Line(usd, R105)>>),
     Feed(Day1, <<Line(USD, <<"2">>), Line(USD, R105)>>),
     Feed(Day1, <<Line(USD, <<"0">>), Line(GBP, R085)>>),
     Feed(Day1, <<Line(USD, <<"0", ".", "0", "1">>), Line(GBP, <<"4">>)>>),
     Feed(Day1, <<Line(USD, <<"1", "8">>), Line(GBP, <<"0", ".", "5">>)>>),
     Feed(Day1, <<Line(USD, <<"-", "1", ".", "5">>)>>),
     Feed(Day1, <<Line(USD, R105), Line(GBP, <<"n", "/", "a">>)>>),
     Feed(Day1, <<>>),
     Feed(BadDay, <<Line(USD, R105)>>),
     BadXml}

Amounts == {-ONE, ZERO, ONE, 10 * ONE, 15 * ONE}

Call(op, rs, a1, a2, amount, res) ==
    [op |-> op, rs |-> rs, a1 |-> a1, a2 |-> a2, amount |-> amount, res |-> res]

ConvInit ==
    /\ SysInit
    /\ conv_feed \in ConvFeeds
    /\ conv_rs = None
    /\ conv_out = NoCall

\* EcbFetcher::parse_ecb_xml on the feed
ConvParse ==
    /\ conv_rs = None
    /\ LET res == parse_ecb_xml(conv_feed)
       IN  /\ conv_out' = Call("parse", None, <<>>, <<>>, 0, res)
           /\ conv_rs' = IF res.ok THEN Some(res.val) ELSE None
    /\ UNCHANGED <<conv_feed, sys_vars>>

\* rebase_rates on the DailyRate in hand
ConvRebase ==
    /\ conv_rs # None
    /\ \E x \in CodeArgs :
        conv_out' = Call("rebase", conv_rs, x, <<>>, 0, rebase_rates(conv_rs[1], x))
    /\ UNCHANGED <<conv_feed, conv_rs, sys_vars>>

\* the DailyRate rebase_rates returned becomes the one in hand
ConvTakeRebased ==
    /\ conv_out.op = "rebase" /\ conv_out.res.ok
    /\ conv_rs' = Some(conv_out.res.val)
    /\ UNCHANGED <<conv_feed, conv_out, sys_vars>>

\* convert_currency on the DailyRate in hand
ConvConvert ==
    /\ conv_rs # None
    /\ \E from \in CodeArgs, to \in CodeArgs, amount \in Amounts :
        conv_out' = Call("convert", conv_rs, from, to, amount,
                         convert_currency(conv_rs[1], from, to, amount))
    /\ UNCHANGED <<conv_feed, conv_rs, sys_vars>>

\* convert_currency there and back, as tests::test_decimal_precision does: the amount
\* from one code to another and the result back; the outcome holds both results and
\* both rates
ConvRoundTrip ==
    /\ conv_rs # None
    /\ \E from \in CodeArgs, to \in CodeArgs, amount \in Amounts :
        LET there == convert_currency(conv_rs[1], from, to, amount)
            back == convert_currency(conv_rs[1], to, from, there.val[1])
        IN  conv_out' = Call("round_trip", conv_rs, from, to, amount,
                             IF ~there.ok THEN there
                             ELSE IF ~back.ok THEN back
                             ELSE Ok(<<there.val[1], there.val[2], back.val[1], back.val[2]>>))
    /\ UNCHANGED <<conv_feed, conv_rs, sys_vars>>

ConvNext ==
    \/ ConvParse
    \/ ConvRebase
    \/ ConvTakeRebased
    \/ ConvConvert

ConvSpec == ConvInit /\ [][ConvNext]_vars

\* the round trip on every DailyRate the parser and rebase_rates produce
RoundTripNext ==
    \/ ConvParse
    \/ ConvRebase
    \/ ConvTakeRebased
    \/ ConvRoundTrip

RoundTripSpec == ConvInit /\ [][RoundTripNext]_vars

(***************************************************************************)
(* The request handlers on their own: the process is serving, the cache    *)
(* holds what an update run left there, and requests are answered one      *)
(* after the other.                                                        *)
(***************************************************************************)
US == <<"U", "S">>

\* the feeds whose DailyRate the cache can hold: one with a rate of zero
HandlerFeeds ==
    {Feed(Day1, <<Line(USD, R105), Line(GBP, R085)>>),
     Feed(Day1, <<Line(USD, <<"0">>), Line(GBP, R085)>>)}

HttpCodes == {EUR, usd, GBP, XXX, US}
AmountArgs == {<<"1", "0">>, <<"0">>, <<"-", "1">>, <<"n", "/", "a">>}

Detail == <<"upstream", " ", "10.0.0.7">>

\* the errors the code constructs: each declared variant with a detail, and the
\* CalculationError that converter.rs constructs
ErrorValues ==
    {ApiError(k, Detail) : k \in Variants \ {"NoRatesAvailable", "CurrencyNotFound"}}
        \cup {ApiError("NoRatesAvailable", <<>>),
              ApiError("CurrencyNotFound", XXX),
              ApiError("CalculationError", <<"Division by zero in rebase">>)}

\* the process is serving with the cache as an update run left it: empty, or the
\* rates of a feed with its date, or the rates without the date (the second SET of
\* store_rates failed)
HandlerInit ==
    /\ main_pc = "serving"
    /\ sched = "started"
    /\ run = [r \in Runs |-> IdleRun]
    /\ ticks = 0
    /\ rates_key \in {None} \cup {Some(to_string(fetch_rates(f).val)) : f \in HandlerFeeds}
    /\ date_key \in {None} \cup
            (IF rates_key = None THEN {} ELSE {Some(from_str(rates_key[1]).date)})
    /\ last_ok = IF date_key = None THEN None ELSE Some(from_str(rates_key[1]))
    /\ clean = (rates_key = None \/ date_key # None)
    /\ reader = IdleReader
    /\ http = IdleHttp
    /\ conv_feed = NoResponse
    /\ conv_rs = None
    /\ conv_out = NoCall

\* GET /api/convert: convert_handler, with its one read of the store
HttpConvert ==
    /\ main_pc = "serving"
    /\ http.pc \in {"idle", "done"}
    /\ \E from \in HttpCodes, to \in HttpCodes, amount \in AmountArgs, up \in BOOLEAN :
        LET params == ConvertQuery(from, to, amount)
            result == convert_handler(params, rates_key, up)
        IN  http' = Http("done", "convert", params, <<up>>, result, respond(result))
    /\ UNCHANGED <<main_pc, sched, run, ticks, rates_key, date_key, last_ok, clean, reader,
                   conv_vars>>

\* /api/latest writing the rebased DailyRate back under the rates key
HttpLatest_caches_rebased ==
    /\ main_pc = "serving"
    /\ http.pc \in {"idle", "done"}
    /\ \E base \in {None} \cup {Some(c) : c \in HttpCodes}, up \in BOOLEAN :
        LET params == LatestRatesQuery(base)
            result == latest_rates_handler(params, rates_key, up)
        IN  /\ http' = Http("done", "latest", params, <<up>>, result, respond(result))
            /\ rates_key' = IF result.ok /\ base # None
                            THEN Some(to_string(rebase_rates(from_str(rates_key[1]),
                                                             base[1]).val))
                            ELSE rates_key
    /\ UNCHANGED <<main_pc, sched, run, ticks, date_key, last_ok, clean, reader, conv_vars>>

\* GET /api/latest: latest_rates_handler, with its one read of the store
HttpLatest ==
    /\ main_pc = "serving"
    /\ http.pc \in {"idle", "done"}
    /\ \E base \in {None} \cup {Some(c) : c \in HttpCodes}, up \in BOOLEAN :
        LET params == LatestRatesQuery(base)
            result == latest_rates_handler(params, rates_key, up)
        IN  http' = Http("done", "latest", params, <<up>>, result, respond(result))
    /\ UNCHANGED <<main_pc, sched, run, ticks, rates_key, date_key, last_ok, clean, reader,
                   conv_vars>>

\* GET /health, up to store.health_check().await
HttpHealthCheck ==
    /\ main_pc = "serving"
    /\ http.pc \in {"idle", "done"}
    /\ \E up \in BOOLEAN :
        http' = Http("health_checked", "health", <<>>, <<up>>, health_check(up),
                     HttpResponse(0, <<>>))
    /\ UNCHANGED <<main_pc, sched, run, ticks, rates_key, date_key, last_ok, clean, reader,
                   conv_vars>>

\* GET /health, from store.get_last_update_date().await to the response
HttpHealthDate ==
    /\ main_pc \in {"serving", "draining"}
    /\ http.pc = "health_checked"
    /\ \E up \in BOOLEAN :
        LET result == health_handler(http.result, get_last_update_date(date_key, up))
        IN  http' = Http("done", "health", <<>>, Append(http.up, up), result, respond(result))
    /\ UNCHANGED <<main_pc, sched, run, ticks, rates_key, date_key, last_ok, clean, reader,
                   conv_vars>>

\* an error value reaches the translation point
HttpIntoResponse ==
    /\ main_pc = "serving"
    /\ http.pc \in {"idle", "done"}
    /\ \E e \in ErrorValues :
        http' = Http("done", "error", <<>>, <<>>, [ok |-> FALSE, val |-> <<>>, err |-> e],
                     into_response(e))
    /\ UNCHANGED <<main_pc, sched, run, ticks, rates_key, date_key, last_ok, clean, reader,
                   conv_vars>>

HandlerNext ==
    \/ HttpConvert
    \/ HttpLatest
    \/ HttpHealthCheck
    \/ HttpHealthDate
    \/ HttpIntoResponse

HandlerSpec == HandlerInit /\ [][HandlerNext]_vars

(***************************************************************************)
(* Properties of the pure functions.                                       *)
(***************************************************************************)
Currencies(feed) == {feed.rates[i].currency : i \in DOMAIN feed.rates}

\* a feed as the upstream publishes it: a readable envelope with a valid date, and
\* line items with distinct upper-case codes and non-negative decimal rates; the
\* rates are per euro, so a line for EUR itself can only say 1
WellFormed(feed) ==
    /\ feed.transport_ok /\ feed.status_ok /\ feed.xml_ok
    /\ validate_date(feed.time)
    /\ \A i \in DOMAIN feed.rates :
        /\ ParseDecimal(feed.rates[i].rate).ok
        /\ ParseDecimal(feed.rates[i].rate).val >= 0
        /\ feed.rates[i].currency = to_uppercase(feed.rates[i].currency)
        /\ feed.rates[i].currency = EUR => ParseDecimal(feed.rates[i].rate).val = ONE
    /\ \A i, j \in DOMAIN feed.rates :
        feed.rates[i].currency = feed.rates[j].currency => i = j

\* C8: parsing a well-formed feed gives base EUR, the feed's date, one entry per
\* reported currency with the reported value and an entry EUR = 1, nothing else: one
\* entry more than the feed lists when the feed does not list EUR
C8_ParseAddsEur ==
    (conv_out.op = "parse" /\ WellFormed(conv_feed)) =>
        /\ conv_out.res.ok
        /\ LET rs == conv_out.res.val
           IN  /\ rs.base = EUR
               /\ rs.date = conv_feed.time
               /\ \A i \in DOMAIN conv_feed.rates :
                    /\ conv_feed.rates[i].currency \in DOMAIN rs.rates
                    /\ rs.rates[conv_feed.rates[i].currency]
                        = ParseDecimal(conv_feed.rates[i].rate).val
               /\ EUR \in DOMAIN rs.rates
               /\ rs.rates[EUR] = ONE
               /\ DOMAIN rs.rates = Currencies(conv_feed) \cup {EUR}
               /\ EUR \notin Currencies(conv_feed)
                    => Cardinality(DOMAIN rs.rates) = Len(conv_feed.rates) + 1

\* a well-formed feed that lists two currencies and not EUR has been parsed
C8_Witness ==
    /\ conv_out.op = "parse"
    /\ WellFormed(conv_feed)
    /\ Len(conv_feed.rates) = 2
    /\ EUR \notin Currencies(conv_feed)
    /\ Cardinality(DOMAIN conv_out.res.val.rates) = 3

\* the rate of code x relative to the base of rs
RateOf(rs, x) == IF x = rs.base THEN ONE ELSE rs.rates[x]

\* C9 as stated: whenever rebase_rates(rs, X) succeeds, the result's rates do not
\* contain X and contain rs.base with value 1 / rate(X)
C9_RebaseKeys ==
    (conv_out.op = "rebase" /\ conv_out.res.ok) =>
        LET rs == conv_out.rs[1]
            x == to_uppercase(conv_out.a1)
            rates == conv_out.res.val.rates
        IN  /\ x \notin DOMAIN rates
            /\ rs.base \in DOMAIN rates
            /\ rates[rs.base] = checked_div(ONE, RateOf(rs, x))[1]

\* C9 amended: for a DailyRate rs that the fetcher or rebase_rates produced (its base
\* is no key of its rates, or has the rate 1 there), whenever rebase_rates(rs, X)
\* succeeds for an X other than rs.base, the result's rates do not contain X and
\* contain rs.base with value 1 / rate(X)
C9_RebaseKeysOtherBase ==
    (conv_out.op = "rebase" /\ conv_out.res.ok
        /\ to_uppercase(conv_out.a1) # conv_out.rs[1].base
        /\ (BaseNotKey(conv_out.rs[1]) \/ conv_out.rs[1].rates[conv_out.rs[1].base] = ONE)) =>
        LET rs == conv_out.rs[1]
            x == to_uppercase(conv_out.a1)
            rates == conv_out.res.val.rates
        IN  /\ x \notin DOMAIN rates
            /\ rs.base \in DOMAIN rates
            /\ rates[rs.base] = checked_div(ONE, RateOf(rs, x))[1]

\* a DailyRate whose rates hold its own base has been rebased to another of its keys
C9_Witness ==
    /\ conv_out.op = "rebase" /\ conv_out.res.ok
    /\ conv_out.rs[1].base \in DOMAIN conv_out.rs[1].rates
    /\ to_uppercase(conv_out.a1) # conv_out.rs[1].base
    /\ conv_out.a1 # to_uppercase(conv_out.a1)

\* C10: convert_currency from a code to the same code, in any letter case, known or
\* not, returns the amount and the rate 1 and no error
C10_SameCurrency ==
    (conv_out.op = "convert" /\ to_uppercase(conv_out.a1) = to_uppercase(conv_out.a2)) =>
        /\ conv_out.res.ok
        /\ conv_out.res.val = <<conv_out.amount, ONE>>

\* a code that is neither the base nor a key has been converted to itself, and a
\* lower-case code to its upper-case spelling
C10_Witness ==
    /\ conv_out.op = "convert"
    /\ conv_out.res.ok
    /\ \/ /\ conv_out.a1 = XXX /\ conv_out.a2 = XXX
          /\ XXX \notin DOMAIN conv_out.rs[1].rates
          /\ conv_out.amount = 10 * ONE
       \/ /\ conv_out.a1 = usd /\ conv_out.a2 = USD
          /\ conv_out.amount = 10 * ONE

\* a code the DailyRate knows: its base or a key of its rates
Known(rs, x) == x = rs.base \/ x \in DOMAIN rs.rates

\* C11 as stated: convert_currency with a from or to code that, upper-cased, is neither
\* the base nor a key returns CurrencyNotFound with that upper-cased code (the from
\* code when both are unknown), and rebase_rates with such a new base returns
\* CurrencyNotFound with the upper-cased new base
C11_UnknownCode ==
    LET rs == conv_out.rs[1]
        from == to_uppercase(conv_out.a1)
        to == to_uppercase(conv_out.a2)
    IN  /\ (conv_out.op = "convert" /\ (~Known(rs, from) \/ ~Known(rs, to))) =>
            /\ ~conv_out.res.ok
            /\ conv_out.res.err = ApiError("CurrencyNotFound",
                                           IF ~Known(rs, from) THEN from ELSE to)
        /\ (conv_out.op = "rebase" /\ ~Known(rs, from)) =>
            /\ ~conv_out.res.ok
            /\ conv_out.res.err = ApiError("CurrencyNotFound", from)

\* C11 amended: the same, for convert_currency only when the two upper-cased codes
\* differ (equal codes return the amount whether known or not)
C11_UnknownCodeDistinct ==
    LET rs == conv_out.rs[1]
        from == to_uppercase(conv_out.a1)
        to == to_uppercase(conv_out.a2)
    IN  /\ (conv_out.op = "convert" /\ from # to /\ (~Known(rs, from) \/ ~Known(rs, to))) =>
            /\ ~conv_out.res.ok
            /\ conv_out.res.err = ApiError("CurrencyNotFound",
                                           IF ~Known(rs, from) THEN from ELSE to)
        /\ (conv_out.op = "rebase" /\ ~Known(rs, from)) =>
            /\ ~conv_out.res.ok
            /\ conv_out.res.err = ApiError("CurrencyNotFound", from)

\* convert_currency has been called with two different unknown codes, the first one in
\* lower case
C11_Witness ==
    /\ conv_out.op = "convert"
    /\ conv_out.a1 = usd /\ conv_out.a2 = XXX
    /\ ~Known(conv_out.rs[1], USD) /\ ~Known(conv_out.rs[1], XXX)
    /\ conv_out.res.err.detail = USD

\* q is n / d rounded to the nearest unit
Nearest(q, n, d) == 2 * Abs(q * d - n) <= Abs(d)

\* n / d, for n >= 0 and d > 0, is at least DecMax and a half: it does not round to a
\* Decimal
Overflows(n, d) == 2 * n >= (2 * DecMax + 1) * d

\* C12 as stated: for distinct known codes convert_currency returns the rate
\* rateTo / rateFrom and the result amount * rate, the rate of the base being 1 and the
\* rate of another code its entry in the rates
C12_CrossRate ==
    LET rs == conv_out.rs[1]
        from == to_uppercase(conv_out.a1)
        to == to_uppercase(conv_out.a2)
    IN  (conv_out.op = "convert" /\ from # to /\ Known(rs, from) /\ Known(rs, to)) =>
            /\ conv_out.res.ok
            /\ Nearest(conv_out.res.val[2], RateOf(rs, to) * Unit, RateOf(rs, from))
            /\ Nearest(conv_out.res.val[1], conv_out.amount * conv_out.res.val[2], Unit)

\* C12 amended: for distinct known codes convert_currency returns the rate
\* rateTo / rateFrom and the result amount * rate, or CalculationError, and the error
\* only when rateFrom is 0 or the quotient or the product is too large for a Decimal
C12_CrossRateOrError ==
    LET rs == conv_out.rs[1]
        from == to_uppercase(conv_out.a1)
        to == to_uppercase(conv_out.a2)
        rf == RateOf(rs, from)
        rt == RateOf(rs, to)
    IN  (conv_out.op = "convert" /\ from # to /\ Known(rs, from) /\ Known(rs, to)) =>
            IF conv_out.res.ok
            THEN /\ Nearest(conv_out.res.val[2], rt * Unit, rf)
                 /\ Nearest(conv_out.res.val[1], conv_out.amount * conv_out.res.val[2], Unit)
            ELSE /\ conv_out.res.err.kind = "CalculationError"
                 /\ \/ rf = 0
                    \/ Overflows(Abs(rt) * Unit, Abs(rf))
                    \/ \E r \in (0 - DecMax)..DecMax :
                        /\ Nearest(r, rt * Unit, rf)
                        /\ Overflows(Abs(conv_out.amount * r), Unit)

\* a cross rate between two codes that are not the base has been computed and applied
C12_Witness ==
    /\ conv_out.op = "convert" /\ conv_out.res.ok
    /\ conv_out.a1 = usd /\ conv_out.a2 = GBP
    /\ conv_out.rs[1].base = EUR
    /\ conv_out.rs[1].rates[USD] # ONE
    /\ conv_out.rs[1].rates[GBP] # conv_out.res.val[2]
    /\ conv_out.amount = 10 * ONE
    /\ conv_out.res.val[1] # conv_out.amount

\* C19: rebase_rates to the base the DailyRate already has, in any letter case, returns
\* Ok with an equal DailyRate: same date, same base, same rates
C19_RebaseSameBase ==
    (conv_out.op = "rebase" /\ to_uppercase(conv_out.a1) = conv_out.rs[1].base) =>
        /\ conv_out.res.ok
        /\ conv_out.res.val.date = conv_out.rs[1].date
        /\ conv_out.res.val.base = conv_out.rs[1].base
        /\ conv_out.res.val.rates = conv_out.rs[1].rates

\* a DailyRate whose base is not among its keys has been rebased to its base given in
\* lower case
C19_Witness ==
    /\ conv_out.op = "rebase" /\ conv_out.res.ok
    /\ conv_out.a1 = usd
    /\ conv_out.rs[1].base = USD
    /\ USD \notin DOMAIN conv_out.rs[1].rates
    /\ conv_out.res.val = conv_out.rs[1]

\* the epsilon of the round trip: one whole unit of the currency
Epsilon == ONE

\* the round trip has been made between two known codes with non-zero rates and a
\* non-negative amount
RoundTripCase ==
    /\ conv_out.op = "round_trip"
    /\ conv_out.amount >= 0
    /\ Known(conv_out.rs[1], to_uppercase(conv_out.a1))
    /\ Known(conv_out.rs[1], to_uppercase(conv_out.a2))
    /\ RateOf(conv_out.rs[1], to_uppercase(conv_out.a1)) # 0
    /\ RateOf(conv_out.rs[1], to_uppercase(conv_out.a2)) # 0

Offending(feed) ==
    {i \in DOMAIN feed.rates :
        \/ ~ParseDecimal(feed.rates[i].rate).ok
        \/ ParseDecimal(feed.rates[i].rate).val < 0}

\* C18: parsing a readable feed in which some rate string is not a valid non-negative
\* decimal number, unparseable or negative, fails with an error that names the currency
\* code of the first such line item
C18_BadRateFailsConstruction ==
    (conv_out.op = "parse" /\ conv_feed.xml_ok /\ Offending(conv_feed) # {}) =>
        /\ ~conv_out.res.ok
        /\ \E i \in Offending(conv_feed) :
            /\ \A j \in Offending(conv_feed) : i <= j
            /\ conv_out.res.err.detail = conv_feed.rates[i].currency

(***************************************************************************)
(* Properties of the request handlers.                                     *)
(***************************************************************************)
\* the DailyRate the cache holds
Cached == from_str(rates_key[1])

\* a /api/convert request that passes validation: two codes of three characters and an
\* amount that is a non-negative decimal number
ValidConvert(params) ==
    /\ Len(params.from) = 3
    /\ Len(params.to) = 3
    /\ ParseDecimal(params.amount).ok
    /\ ParseDecimal(params.amount).val >= 0

\* a /api/convert request has been answered from a populated cache: distinct known
\* codes, the rate of the from code being 0
ConvertByZero ==
    /\ http.pc = "done" /\ http.route = "convert"
    /\ ValidConvert(http.params)
    /\ http.up = <<TRUE>> /\ rates_key # None
    /\ to_uppercase(http.params.from) # to_uppercase(http.params.to)
    /\ Known(Cached, to_uppercase(http.params.from))
    /\ Known(Cached, to_uppercase(http.params.to))
    /\ RateOf(Cached, to_uppercase(http.params.from)) = 0

\* a /api/latest request has been answered from a populated cache: the new base is a
\* key other than the base, and its rate is 0
RebaseByZero ==
    /\ http.pc = "done" /\ http.route = "latest"
    /\ http.params.base # None
    /\ Len(http.params.base[1]) = 3
    /\ http.up = <<TRUE>> /\ rates_key # None
    /\ to_uppercase(http.params.base[1]) # Cached.base
    /\ to_uppercase(http.params.base[1]) \in DOMAIN Cached.rates
    /\ Cached.rates[to_uppercase(http.params.base[1])] = 0

\* C13: a zero divisor yields no value: convert_currency with distinct codes and
\* rateFrom = 0, and rebase_rates with a new base whose rate is 0, return
\* CalculationError, and the response to the request is 500
C13_ZeroDivisor ==
    (ConvertByZero \/ RebaseByZero) =>
        /\ ~http.result.ok
        /\ http.result.err.kind = "CalculationError"
        /\ http.response.status = 500

\* the first half of C13 alone: what convert_currency and rebase_rates return
ZeroDivisorIsCalculationError ==
    (ConvertByZero \/ RebaseByZero) =>
        /\ ~http.result.ok
        /\ http.result.err.kind = "CalculationError"

\* C14: a /api/convert request with two codes of three characters and a non-negative
\* decimal amount, when the read of the rates key answers and finds no value, gets 503
\* NoRatesAvailable, whatever the two codes are
C14_EmptyCacheIs503 ==
    (/\ http.pc = "done" /\ http.route = "convert"
     /\ ValidConvert(http.params)
     /\ http.up = <<TRUE>> /\ rates_key = None) =>
        /\ ~http.result.ok
        /\ http.result.err.kind = "NoRatesAvailable"
        /\ http.response.status = 503

\* an unknown code has been converted to itself with the cache empty, and the answer
\* was 503
C14_Witness ==
    /\ http.pc = "done" /\ http.route = "convert"
    /\ http.params = ConvertQuery(XXX, XXX, <<"1", "0">>)
    /\ http.up = <<TRUE>> /\ rates_key = None
    /\ http.response.status = 503

\* C15: /health always answers 200: redis is "unhealthy" when the PING fails and
\* "healthy" when it succeeds, last_update is absent when the read of the date fails and
\* is what the date key holds otherwise, whether or not any rates are stored
C15_HealthNeverErrors ==
    (http.pc = "done" /\ http.route = "health") =>
        /\ http.response.status = 200
        /\ http.response.body.status = "ok"
        /\ http.response.body.redis = (IF http.up[1] THEN "healthy" ELSE "unhealthy")
        /\ http.response.body.last_update = (IF http.up[2] THEN date_key ELSE None)

\* /health has been answered with the PING and the read of the date both failing, and
\* with the PING succeeding while no rates are stored
C15_Witness ==
    /\ http.pc = "done" /\ http.route = "health"
    /\ \/ http.up = <<FALSE, FALSE>> /\ rates_key # None
       \/ http.up = <<TRUE, TRUE>> /\ rates_key = None
    /\ http.response.status = 200

\* a /api/latest request has been answered for a base of three characters that is
\* neither the base of the cached DailyRate nor a key of its rates
UnknownBase ==
    /\ http.pc = "done" /\ http.route = "latest"
    /\ http.params.base # None
    /\ Len(http.params.base[1]) = 3
    /\ http.up = <<TRUE>> /\ rates_key # None
    /\ ~Known(Cached, to_uppercase(http.params.base[1]))

\* what C16 says of a base of the wrong length and of an empty cache: 400 for a base
\* whose length is not 3, and 503 when the query is valid and the read of the rates key
\* finds no value
BadBaseOrEmptyCache ==
    (http.pc = "done" /\ http.route = "latest") =>
        /\ (http.params.base # None /\ Len(http.params.base[1]) # 3)
            => http.response.status = 400
        /\ (/\ http.params.base = None \/ Len(http.params.base[1]) = 3
            /\ http.up = <<TRUE>> /\ rates_key = None)
            => http.response.status = 503

\* C16 as stated: /api/latest answers 500 for a base of three characters that the
\* cached DailyRate does not know, 400 for a base whose length is not 3, and 503 with
\* no cached rates
C16_UnknownBaseIs500 ==
    /\ BadBaseOrEmptyCache
    /\ UnknownBase => http.response.status = 500

\* C16 amended: /api/latest answers 404 (CurrencyNotFound) for a base of three
\* characters that the cached DailyRate does not know, 400 for a base whose length is
\* not 3, and 503 with no cached rates
C16_UnknownBaseIs404 ==
    /\ BadBaseOrEmptyCache
    /\ UnknownBase =>
        /\ http.result.err = ApiError("CurrencyNotFound", to_uppercase(http.params.base[1]))
        /\ http.response.status = 404

\* /api/latest has been asked for an unknown base with rates in the cache, and for a
\* base of two characters with the cache empty
C16_Witness ==
    /\ http.pc = "done" /\ http.route = "latest"
    /\ \/ UnknownBase /\ http.params.base = Some(XXX)
       \/ http.params.base = Some(US) /\ rates_key = None /\ http.response.status = 400

\* the text m contains the text d
Contains(m, d) ==
    /\ d # <<>>
    /\ \E i \in 1..(Len(m) - Len(d) + 1) : SubSeq(m, i, i + Len(d) - 1) = d

\* the kinds of failure that are to be answered with 500 and a generic message
ServerFailures ==
    {"EcbFetchError", "XmlParseError", "RedisError", "CalculationError", "InternalError"}

\* the status and body the mapping gives to an error of the kinds in `kinds`
MappedAsSpecified(kinds) ==
    (http.pc = "done" /\ ~http.result.ok /\ http.result.err.kind \in kinds) =>
        LET e == http.result.err
        IN  /\ e.kind = "CurrencyNotFound" => http.response.status = 404
            /\ e.kind = "NoRatesAvailable" => http.response.status = 503
            /\ e.kind = "ValidationError" => http.response.status = 400
            /\ e.kind \in ServerFailures =>
                /\ http.response.status = 500
                /\ ~Contains(http.response.body.error, e.detail)
                /\ http.response.body = into_response(ApiError(e.kind, <<>>)).body

\* C17: every error kind maps to one fixed status: CurrencyNotFound to 404,
\* NoRatesAvailable to 503, ValidationError to 400, and every fetch, parse, store,
\* calculation or internal failure to 500 with a fixed generic message that does not
\* contain the error's detail
C17_StatusMapping ==
    MappedAsSpecified(Variants \cup ServerFailures)

\* C17 for the variants enum ApiError declares
DeclaredVariantsMapped ==
    MappedAsSpecified(Variants)

\* a step of a request handler: the request being served changes
HandlerStep == http' # http

\* C21: the handlers only read the cache: every step of /health, /api/latest and
\* /api/convert, whether the request succeeds or fails, leaves the rates key and the
\* date key as they were
C21_HandlersReadOnly ==
    [][HandlerStep => (rates_key' = rates_key /\ date_key' = date_key)]_vars

\* /api/latest has answered with the rates rebased to USD, and the rates key still
\* holds the DailyRate with the base EUR and the date key its date
C21_Witness ==
    /\ http.pc = "done" /\ http.route = "latest" /\ http.result.ok
    /\ http.result.val.base = USD
    /\ rates_key # None /\ from_str(rates_key[1]).base = EUR
    /\ date_key = Some(from_str(rates_key[1]).date)

(***************************************************************************)
(* Conversion against rebasing.                                            *)
(***************************************************************************)
\* convert_currency was called with two distinct known codes, the first with a rate
\* that is not zero
PairCase ==
    /\ conv_out.op = "convert"
    /\ LET rs == conv_out.rs[1]
           from == to_uppercase(conv_out.a1)
           to == to_uppercase(conv_out.a2)
       IN  /\ from # to
           /\ Known(rs, from) /\ Known(rs, to)
           /\ RateOf(rs, from) # ZERO

\* rebase_rates to the from code of the call, on the DailyRate of the call
Rebased == rebase_rates(conv_out.rs[1], conv_out.a1)

\* C22 as stated: for distinct known codes A and B with rate(A) not zero, the rate
\* convert_currency(rs, A, B, amount) returns is rebase_rates(rs, A).rates[B], also
\* when A or B is the base of rs
C22_ConvertAgreesWithRebase ==
    (PairCase /\ conv_out.res.ok) =>
        /\ Rebased.ok
        /\ to_uppercase(conv_out.a2) \in DOMAIN Rebased.val.rates
        /\ conv_out.res.val[2] = Rebased.val.rates[to_uppercase(conv_out.a2)]

\* C22 amended: for distinct known codes A and B with rate(A) not zero, whenever
\* convert_currency(rs, A, B, amount) and rebase_rates(rs, A) both return a value the
\* rate of the one is rates[B] of the other, also when A or B is the base of rs; a
\* call that returns no value returns CalculationError
C22_ConvertAgreesWithRebaseOrError ==
    PairCase =>
        /\ (conv_out.res.ok /\ Rebased.ok) =>
            /\ to_uppercase(conv_out.a2) \in DOMAIN Rebased.val.rates
            /\ conv_out.res.val[2] = Rebased.val.rates[to_uppercase(conv_out.a2)]
        /\ ~conv_out.res.ok => conv_out.res.err.kind = "CalculationError"
        /\ ~Rebased.ok => Rebased.err.kind = "CalculationError"

\* a conversion from a code that is not the base to the base has returned a rate that
\* is not 1, and rebase_rates to that code returns a DailyRate
C22_Witness ==
    /\ PairCase
    /\ to_uppercase(conv_out.a1) # conv_out.rs[1].base
    /\ to_uppercase(conv_out.a2) = conv_out.rs[1].base
    /\ conv_out.res.ok /\ conv_out.res.val[2] # ONE
    /\ Rebased.ok

(***************************************************************************)
(* The order of the checks of /api/convert.                                *)
(***************************************************************************)
\* a /api/convert request has been answered
ConvertDone == http.pc = "done" /\ http.route = "convert"

\* the first two checks: a request that fails validation is answered 400 with the
\* validation error whatever the cache holds and whether or not it can be reached; a
\* valid request whose read of the rates key finds no value is answered 503
ValidationThenCache ==
    ConvertDone =>
        /\ ~ValidConvert(http.params) =>
            /\ ~http.result.ok
            /\ http.result.err.kind = "ValidationError"
            /\ http.response.status = 400
        /\ (ValidConvert(http.params) /\ http.up = <<TRUE>> /\ rates_key = None) =>
            /\ ~http.result.ok
            /\ http.result.err.kind = "NoRatesAvailable"
            /\ http.response.status = 503

\* a valid request has been answered from a populated cache
ConvertedFromCache ==
    /\ ConvertDone
    /\ ValidConvert(http.params)
    /\ http.up = <<TRUE>> /\ rates_key # None

\* C23: /api/convert checks in a fixed order and reports the first failure only:
\* validation of the parameters (400) before any access to the cache, then the presence
\* of the rates (503), then the conversion itself (404 or 500); an invalid parameter
\* gets 400 even with the cache empty or unreachable, and an unknown currency gets 503
\* with the cache empty
C23_ConvertCheckOrder ==
    /\ ValidationThenCache
    /\ (ConvertedFromCache /\ ~http.result.ok) => http.response.status \in {404, 500}

\* C23 for what convert_handler returns: the order of the checks, and a conversion that
\* fails with CurrencyNotFound, answered 404, or with CalculationError
ConvertChecksInOrder ==
    /\ ValidationThenCache
    /\ (ConvertedFromCache /\ ~http.result.ok) =>
        \/ http.result.err.kind = "CurrencyNotFound" /\ http.response.status = 404
        \/ http.result.err.kind = "CalculationError"

(***************************************************************************)
(* The two keys of the cache, and the order of main.                       *)
(***************************************************************************)
\* C24: in every state of the cache, whatever the interleaving of the update runs and
\* whichever writes failed, the date key is present only if the rates key is:
\* get_last_update_date returns no date while get_rates returns no rates
C24_DateOnlyWithRates ==
    /\ date_key # None => rates_key # None
    /\ get_last_update_date(date_key, TRUE).val # None
        => get_rates(rates_key, TRUE).val # None

\* the date key is present while one run has failed at a write and another is in
\* store_rates
C24_Witness ==
    /\ date_key # None
    /\ \E r \in Runs :
        /\ run[r].st = "FAILED" /\ run[r].err = "RedisError"
        /\ \E o \in Runs \ {r} : Storing(o)

\* the eager run is in flight: the run of slot 1 before any schedule tick
EagerInFlight == ticks = 0 /\ run[1].st = "FETCHING"

\* a request is in flight
RequestInFlight == reader.pc # "idle" \/ http.pc \notin {"idle", "done"}

\* axum::serve has returned
ServerStopped == main_pc \in {"shutdown_scheduler", "returning", "exited"}

\* C25: the eager run has finished, STORED or FAILED, before the scheduler is started
\* and before the server accepts a request, so it overlaps no scheduled run and no
\* request is served while it is in flight; and the scheduler is shut down only after
\* the server has stopped with no request left in flight, so that it is still started
\* while requests drain
C25_StartupOrdering ==
    /\ EagerInFlight => (sched = "none" /\ ~RequestInFlight)
    /\ main_pc \in {"initial_fetch", "initial_wait"} =>
        /\ sched = "none" /\ ticks = 0 /\ ~RequestInFlight
        /\ \A r \in Runs \ {1} : run[r].st = "IDLE"
    /\ sched = "shutdown" => (ServerStopped /\ ~RequestInFlight)
    /\ main_pc = "draining" => sched = "started"

\* the server is draining a request in flight, after an eager run that failed, and a
\* schedule tick can start a run
C25_Witness ==
    /\ main_pc = "draining"
    /\ RequestInFlight
    /\ rates_key = None
    /\ ENABLED Tick

====
